---- MODULE Spec2Model ----
(***************************************************************************)
(* Model of src/oscilloscope-interface.py: the Oscilloscope session class  *)
(* (connect, disconnect, the four setters, get_waveform) driven by one     *)
(* sequential caller over a pyvisa transport that may fail at any          *)
(* operation.                                                              *)
(*                                                                         *)
(* Numbers that the code handles as floats are exact fixed-point values    *)
(* in tenths (15 stands for the text "1.5"); a voltage is an exact reduced *)
(* fraction <<numerator, denominator>>.  A device reply is a token         *)
(* <<"num", v>> (text that float() accepts, value v tenths) or             *)
(* <<"bad", 0>> (text that float() rejects).                               *)
(*                                                                         *)
(* Results carry the Python exception the code raises:                     *)
(*   "ok"                 normal return                                    *)
(*   "NotConnected"       Exception("Oscilloscope not connected.")         *)
(*   "AttributeError"     attribute access on self.inst = None             *)
(*   "VisaIOError"        the transport operation failed                   *)
(*   "ValueError"         tuple unpacking or float() rejected a reply      *)
(*   "ZeroDivisionError"  float division by 0.0                            *)
(***************************************************************************)
EXTENDS Integers, Sequences, FiniteSets, TLC

\* ---------------------------------------------------------------- bounds
MaxHandles == 2      \* handles the transport hands out in one behaviour
MaxLen == 2          \* longest raw sample block

\* ------------------------------------------------------ program constants
NoHandle == 0        \* self.inst = None
PreambleFields == 10 \* names on the left of the preamble unpacking
MidCode == 130       \* (data - 130.0)
CountsPerDiv == 25   \* / 25.0

Channels == {1, 2}   \* channels the caller uses, of the device's 1..4

VARIABLES inst,      \* Oscilloscope.inst: NoHandle or the handle it holds
          open,      \* transport: handles opened by this session, still open
          nextH,     \* transport: next fresh handle
          lastConn,  \* history: "none", "connect" or "disconnect"
          last,      \* history: the last call, its transcript and outcome
          requested, \* history: <<channel, volts>> of the last scale written
          oscilloscope, \* MainWindow.oscilloscope is an Oscilloscope object
          enabled    \* MainWindow: the Disconnect / Get Waveform buttons

\* what the methods of Oscilloscope never touch; requested is recorded under
\* ScaleSpec only, the MainWindow fields change under WindowSpec only
aux == <<requested, oscilloscope, enabled>>

vars == <<inst, open, nextH, lastConn, last, requested, oscilloscope, enabled>>

\* ------------------------------------------------------------ reply tokens
Num(v) == <<"num", v>>
Bad == <<"bad", 0>>

\* float(text): succeeds exactly on numeric text
FloatOK(t) == t[1] = "num"
FloatVal(t) == t[2]

\* int(x) of a float x (in tenths): truncation toward zero, a whole number
PyInt(v) == IF v >= 0 THEN v \div 10 ELSE -((-v) \div 10)

RECURSIVE GCD(_, _)
GCD(a, b) == IF b = 0 THEN a ELSE GCD(b, a % b)

Abs(x) == IF x < 0 THEN -x ELSE x

\* the exact value n/d, d # 0, as a reduced fraction with positive denominator
Frac(n, d) ==
  LET g == GCD(Abs(n), Abs(d))
      s == IF d < 0 THEN -1 ELSE 1
  IN  <<(s * n) \div g, (s * d) \div g>>

\* ------------------------------------------------------ transport commands
W(cmd, args) == [kind |-> "write", cmd |-> cmd, args |-> args]
Q(cmd, args) == [kind |-> "query", cmd |-> cmd, args |-> args]
QB(cmd, args) == [kind |-> "query_binary", cmd |-> cmd, args |-> args]
OpenOp == [kind |-> "open", cmd |-> "open_resource", args |-> <<>>]
CloseOp == [kind |-> "close", cmd |-> "close", args |-> <<>>]
IdnOp == Q("*IDN?", <<>>)

ChannelOps(channel) == <<W(":WAV:SOUR CHAN", <<channel>>)>>

TimebaseOps(time_per_div) == <<W(":TIM:SCAL", <<time_per_div>>)>>

VoltageScaleOps(channel, volts_per_div) ==
  <<W(":CHAN:SCAL", <<channel, volts_per_div>>)>>

\* set_trigger with the slope written before the source
TriggerOps_SlopeFirst(mode, source, slope, level) ==
  << W(":TRIG:MODE", <<mode>>),
     W(":TRIG:EDGE:SLOP", <<slope>>),
     W(":TRIG:EDGE:SOUR CHAN", <<source>>),
     W(":TRIG:LEV CHAN", <<source, level>>) >>

\* the four writes of set_trigger, in program order
TriggerOps(mode, source, slope, level) ==
  << W(":TRIG:MODE", <<mode>>),
     W(":TRIG:EDGE:SOUR CHAN", <<source>>),
     W(":TRIG:EDGE:SLOP", <<slope>>),
     W(":TRIG:LEV CHAN", <<source, level>>) >>

\* get_waveform asking for the preamble before the format and mode are set
WaveformOps_PreambleFirst(channel) ==
  << W(":WAV:SOUR CHAN", <<channel>>),
     Q(":WAV:PRE?", <<>>),
     W(":WAV:FORM BYTE", <<>>),
     W(":WAV:MODE NORMAL", <<>>),
     Q(":WAV:FORM?", <<>>),
     QB(":WAV:DATA?", <<>>),
     Q(":CHAN:SCAL?", <<channel>>),
     Q(":CHAN:PROB?", <<channel>>) >>

\* the eight transport operations of get_waveform, in program order
WaveformOps(channel) ==
  << W(":WAV:SOUR CHAN", <<channel>>),
     W(":WAV:FORM BYTE", <<>>),
     W(":WAV:MODE NORMAL", <<>>),
     Q(":WAV:FORM?", <<>>),
     Q(":WAV:PRE?", <<>>),
     QB(":WAV:DATA?", <<>>),
     Q(":CHAN:SCAL?", <<channel>>),
     Q(":CHAN:PROB?", <<channel>>) >>

\* ------------------------------------------------------------ call outcomes
NoRet == <<>>

Outcome(result, calls, done, ret) ==
  [result |-> result, calls |-> calls, done |-> done, ret |-> ret]

\* The transport operation that fails first: a handle that is no longer open
\* fails at once, otherwise the transport fails where the environment says
\* (failAt = 0: nowhere).
FirstFailure(usable, failAt) == IF usable THEN failAt ELSE 1

\* a setter that sends a failed write a second time before giving up
RunWrites_RetryOnce(h, usable, ops, failAt) ==
  LET k == FirstFailure(usable, failAt)
  IN  IF h = NoHandle
        THEN Outcome("AttributeError", <<>>, 0, NoRet)
      ELSE IF k \in 1..Len(ops)
        THEN Outcome("VisaIOError", SubSeq(ops, 1, k) \o <<ops[k]>>, k - 1, NoRet)
      ELSE Outcome("ok", ops, Len(ops), NoRet)

\* A setter body: self.inst.write(...) once per command, no guard on self.inst.
\* A failing write raises out of the method: nothing later is sent.
RunWrites(h, usable, ops, failAt) ==
  LET k == FirstFailure(usable, failAt)
  IN  IF h = NoHandle
        THEN Outcome("AttributeError", <<>>, 0, NoRet)
      ELSE IF k \in 1..Len(ops)
        THEN Outcome("VisaIOError", SubSeq(ops, 1, k), k - 1, NoRet)
      ELSE Outcome("ok", ops, Len(ops), NoRet)

\* the unpacking without the [:10] slice
PreambleSlice_NoSlice(f) == f

\* preamble_fields[:10]
PreambleSlice(f) == SubSeq(f, 1, IF Len(f) < PreambleFields THEN Len(f) ELSE PreambleFields)

\* unpacking into the ten names needs exactly ten values
UnpackOK(g) == Len(g) = PreambleFields

\* the conversions with y_reference forgotten
ParsedFields_NoYRef == 5..9

\* positions (1-based) of the unpacked fields the code converts:
\* x_increment, x_origin, x_reference, y_increment, y_origin, y_reference
ParsedFields == 5..10

\* the conversion with 128 as the mid code
Voltage_Mid128(d, vertical_scale, probe_attenuation) ==
  Frac((d - 128) * vertical_scale, CountsPerDiv * probe_attenuation)

\* voltage = ((data - 130.0) / 25.0) * (vertical_scale / probe_attenuation)
Voltage(d, vertical_scale, probe_attenuation) ==
  Frac((d - MidCode) * vertical_scale, CountsPerDiv * probe_attenuation)

\* time = (np.arange(len(data)) - x_reference) * x_increment + x_origin
Time(i, x_reference, x_increment, x_origin) ==
  (i - x_reference) * x_increment + x_origin

\* the time axis built one sample short
Decode_TimeOneShort(data, x_increment, x_origin, x_reference, vertical_scale, probe_attenuation) ==
  [ time    |-> [i \in 1..(Len(data) - 1) |-> Time(i - 1, x_reference, x_increment, x_origin)],
    voltage |-> [i \in 1..Len(data) |-> Voltage(data[i], vertical_scale, probe_attenuation)] ]

Decode(data, x_increment, x_origin, x_reference, vertical_scale, probe_attenuation) ==
  [ time    |-> [i \in 1..Len(data) |-> Time(i - 1, x_reference, x_increment, x_origin)],
    voltage |-> [i \in 1..Len(data) |-> Voltage(data[i], vertical_scale, probe_attenuation)] ]

\* float division that never raises (numpy's), in place of Python's
FloatDivRaises_Never(divisor) == FALSE

\* x / divisor on Python floats raises ZeroDivisionError exactly when the
\* divisor is 0.0
FloatDivRaises(divisor) == divisor = 0

\* the scale taken from the configuration step when one was written for the
\* channel, in place of the reply
VerticalScaleText_Cached(channel, s) ==
  IF requested[1] = channel THEN Num(requested[2]) ELSE s.scale

\* the text float() gets at line 136: the reply to this call's scale query
VerticalScaleText(channel, s) == s.scale

\* get_waveform, statement by statement.  s is what the transport does during
\* the call: failAt (first failing operation, 0 none), preamble (the fields of
\* the :WAV:PRE? reply), data (the block), scale and att (the two scalar replies).
GetWaveform(h, usable, channel, s) ==
  LET ops == WaveformOps(channel)
      k == FirstFailure(usable, s.failAt)
      Fail(n) == Outcome("VisaIOError", SubSeq(ops, 1, n), n - 1, NoRet)
      Raise(e, n) == Outcome(e, SubSeq(ops, 1, n), n, NoRet)
      g == PreambleSlice(s.preamble)
      scale == VerticalScaleText(channel, s)
  IN  IF h = NoHandle THEN Outcome("NotConnected", <<>>, 0, NoRet)
      ELSE IF k \in 1..5 THEN Fail(k)
      ELSE IF ~UnpackOK(g) THEN Raise("ValueError", 5)
      ELSE IF \E i \in ParsedFields : ~FloatOK(g[i]) THEN Raise("ValueError", 5)
      ELSE IF k \in 6..7 THEN Fail(k)
      ELSE IF ~FloatOK(scale) THEN Raise("ValueError", 7)
      ELSE IF k = 8 THEN Fail(8)
      ELSE IF ~FloatOK(s.att) THEN Raise("ValueError", 8)
      ELSE IF FloatDivRaises(FloatVal(s.att)) THEN Raise("ZeroDivisionError", 8)
      ELSE Outcome("ok", ops, 8,
                   << Decode(s.data, FloatVal(g[5]), FloatVal(g[6]),
                             PyInt(FloatVal(g[7])),
                             FloatVal(scale), FloatVal(s.att)) >>)

\* ------------------------------------------------- what the caller passes
TimebaseVals == {2, 10}              \* seconds per division, tenths
VoltsVals == {10, 20}                \* volts per division, tenths
TriggerModes == {"EDGE", "PULSE", "VIDEO"}
TriggerSlopes == {"POS", "NEG"}
TriggerLevels == {15}               \* volts, tenths

\* ----------------------------------------------- what the transport replies
ByteVals == {105, 155}
Raws == UNION {[1..n -> ByteVals] : n \in 0..MaxLen}

XIncVals == {10, 5}
XOrgVals == {0, -20}
XRefVals == {0, 15}                  \* 15: the text "1.5", int(float()) = 1

\* a ten-field preamble: format, type, points, count, xinc, xorg, xref,
\* yinc, yorg, yref
Fields(xinc, xorg, xref) ==
  << Num(0), Num(0), Num(12000), Num(10), Num(xinc), Num(xorg), Num(xref),
     Num(1), Num(0), Num(1270) >>

P0 == Fields(10, 0, 0)
D0 == <<155>>
S0 == Num(10)
A0 == Num(10)

\* well-formed preambles: P0 and P0 with one x field changed
XPreambles ==
  {Fields(xi, 0, 0) : xi \in XIncVals}
    \cup {Fields(10, xo, 0) : xo \in XOrgVals}
    \cup {Fields(10, 0, xr) : xr \in XRefVals}

\* P0 with one unparsable field, P0 cut short, P0 with an eleventh field
ShapedPreambles ==
  {[P0 EXCEPT ![i] = Bad] : i \in 1..PreambleFields}
    \cup {SubSeq(P0, 1, n) : n \in {1, 7, 9}}
    \cup {P0 \o <<Num(0)>>, P0 \o <<Bad>>}

\* P0 announcing 0..MaxLen points
PointsPreambles == {[P0 EXCEPT ![3] = Num(10 * n)] : n \in 0..MaxLen}

\* a block of n samples
Ramp(n) == [i \in 1..n |-> IF i % 2 = 1 THEN 155 ELSE 105]

\* <<vertical scale reply, probe attenuation reply>>
ScalarReplies == {<<S0, A0>>, <<Num(20), A0>>, <<S0, Num(100)>>}

Script(failAt, preamble, data, scale, att) ==
  [failAt |-> failAt, preamble |-> preamble, data |-> data,
   scale |-> scale, att |-> att]

\* The transport's behaviour during one get_waveform.  A reply the call never
\* reads, or that cannot change how it ends, is fixed to P0, D0, S0, A0.
WaveformScripts ==
  {Script(k, P0, D0, S0, A0) : k \in 1..8}
    \cup {Script(0, p, D0, S0, A0) : p \in ShapedPreambles}
    \cup {Script(0, p, Ramp(n), S0, A0) : p \in XPreambles, n \in 0..MaxLen}
    \cup {Script(0, P0, d, sa[1], sa[2]) : d \in Raws, sa \in ScalarReplies}
    \cup {Script(0, P0, D0, Bad, A0), Script(0, P0, D0, S0, Bad), Script(0, P0, D0, S0, Num(0))}
    \cup {Script(0, P0, d, sc, Num(0)) : d \in Raws, sc \in {S0, Num(20)}}
    \cup {Script(0, p, Ramp(n), S0, A0) : p \in PointsPreambles, n \in 0..MaxLen}

\* --------------------------------------------------------------- the state
Call(op, args, env, pre, o) ==
  [op |-> op, args |-> args, env |-> env, pre |-> pre,
   result |-> o.result, calls |-> o.calls, done |-> o.done, ret |-> o.ret]

NoEnv == [failAt |-> 0]

\* no scale has been written yet
NoRequest == <<0, 0>>

Init ==
  /\ inst = NoHandle
  /\ open = {}
  /\ nextH = 1
  /\ lastConn = "none"
  /\ last = Call("init", <<>>, NoEnv, NoHandle, Outcome("ok", <<>>, 0, NoRet))
  /\ requested = NoRequest
  /\ oscilloscope = FALSE
  /\ enabled = FALSE

Usable == inst \in open

\* Oscilloscope.connect: open_resource, assign self.inst, query *IDN?.
\* A failing open raises before the assignment; a failing identity query
\* raises after it.
connect ==
  \E openFails \in BOOLEAN, idnFails \in BOOLEAN :
    /\ ~openFails => nextH <= MaxHandles
    /\ openFails => ~idnFails
    /\ IF openFails
         THEN /\ UNCHANGED <<inst, open, nextH>>
              /\ last' = Call("connect", <<>>, [failAt |-> 1], inst,
                              Outcome("VisaIOError", <<OpenOp>>, 0, NoRet))
         ELSE /\ inst' = nextH
              /\ open' = open \cup {nextH}
              /\ nextH' = nextH + 1
              /\ last' = Call("connect", <<>>, [failAt |-> IF idnFails THEN 2 ELSE 0], inst,
                              IF idnFails
                                THEN Outcome("VisaIOError", <<OpenOp, IdnOp>>, 1, NoRet)
                                ELSE Outcome("ok", <<OpenOp, IdnOp>>, 2, NoRet))
    /\ lastConn' = "connect"
    /\ UNCHANGED aux

\* Oscilloscope.disconnect: close and forget the handle, if there is one.
\* A close that raises leaves self.inst as it was; whether the transport
\* released the handle all the same is the transport's business.
disconnect ==
  \E closeFails \in BOOLEAN, released \in BOOLEAN :
    /\ ~closeFails => released
    /\ (inst = NoHandle) => ~closeFails
    /\ IF inst = NoHandle
         THEN /\ UNCHANGED <<inst, open>>
              /\ last' = Call("disconnect", <<>>, NoEnv, inst,
                              Outcome("ok", <<>>, 0, NoRet))
         ELSE IF ~closeFails
         THEN /\ inst' = NoHandle
              /\ open' = open \ {inst}
              /\ last' = Call("disconnect", <<>>, NoEnv, inst,
                              Outcome("ok", <<CloseOp>>, 1, NoRet))
         ELSE /\ inst' = inst
              /\ open' = IF released THEN open \ {inst} ELSE open
              /\ last' = Call("disconnect", <<>>, [failAt |-> 1], inst,
                              Outcome("VisaIOError", <<CloseOp>>, 0, NoRet))
    /\ nextH' = nextH
    /\ lastConn' = "disconnect"
    /\ UNCHANGED aux

set_channel ==
  \E channel \in Channels, failAt \in 0..1 :
    /\ last' = Call("set_channel", <<channel>>, [failAt |-> failAt], inst,
                    RunWrites(inst, Usable, ChannelOps(channel), failAt))
    /\ UNCHANGED <<inst, open, nextH, lastConn>>
    /\ UNCHANGED aux

set_timebase ==
  \E time_per_div \in TimebaseVals, failAt \in 0..1 :
    /\ last' = Call("set_timebase", <<time_per_div>>, [failAt |-> failAt], inst,
                    RunWrites(inst, Usable, TimebaseOps(time_per_div), failAt))
    /\ UNCHANGED <<inst, open, nextH, lastConn>>
    /\ UNCHANGED aux

set_voltage_scale ==
  \E channel \in Channels, volts_per_div \in VoltsVals, failAt \in 0..1 :
    /\ last' = Call("set_voltage_scale", <<channel, volts_per_div>>,
                    [failAt |-> failAt], inst,
                    RunWrites(inst, Usable, VoltageScaleOps(channel, volts_per_div), failAt))
    /\ UNCHANGED <<inst, open, nextH, lastConn>>
    /\ UNCHANGED aux

set_trigger ==
  \E mode \in TriggerModes, source \in Channels, slope \in TriggerSlopes,
     level \in TriggerLevels, failAt \in 0..4 :
    /\ last' = Call("set_trigger", <<mode, source, slope, level>>,
                    [failAt |-> failAt], inst,
                    RunWrites(inst, Usable, TriggerOps(mode, source, slope, level), failAt))
    /\ UNCHANGED <<inst, open, nextH, lastConn>>
    /\ UNCHANGED aux

\* get_waveform dropping the handle when the acquisition fails
get_waveform_ForgetsOnError ==
  \E channel \in Channels, s \in WaveformScripts :
    LET o == GetWaveform(inst, Usable, channel, s)
    IN  /\ last' = Call("get_waveform", <<channel>>, s, inst, o)
        /\ inst' = IF o.result \in {"ok", "NotConnected"} THEN inst ELSE NoHandle
        /\ UNCHANGED <<open, nextH, lastConn>>
        /\ UNCHANGED aux

get_waveform ==
  \E channel \in Channels, s \in WaveformScripts :
    /\ last' = Call("get_waveform", <<channel>>, s, inst,
                    GetWaveform(inst, Usable, channel, s))
    /\ UNCHANGED <<inst, open, nextH, lastConn>>
    /\ UNCHANGED aux

Next ==
  \/ connect
  \/ disconnect
  \/ set_channel
  \/ set_timebase
  \/ set_voltage_scale
  \/ set_trigger
  \/ get_waveform

Spec == Init /\ [][Next]_vars

\* ------------------------------------------- one acquisition, wide inputs
\* every value of an unsigned byte
Bytes == 0..255

\* single samples of every value, and a three-sample block
DecodeBlocks == {<<d>> : d \in Bytes} \cup {<<130, 155, 105>>}

\* well-formed preambles over the x fields and two settings of the y fields
DecodePreambles ==
  { << Num(0), Num(0), Num(12000), Num(10), Num(xi), Num(xo), Num(xr),
       Num(y[1]), Num(y[2]), Num(y[3]) >> :
      xi \in XIncVals, xo \in XOrgVals, xr \in XRefVals \cup {-15},
      y \in {<<1, 0, 1270>>, <<4, 50, 0>>} }

DecodeScripts ==
  { Script(0, p, d, Num(sc), Num(at)) :
      p \in DecodePreambles, d \in DecodeBlocks, sc \in {5, 10, 20}, at \in {10, 100} }

\* the session right after a connect that succeeded
DecodeInit ==
  /\ inst = 1
  /\ open = {1}
  /\ nextH = 2
  /\ lastConn = "connect"
  /\ last = Call("connect", <<>>, NoEnv, NoHandle,
                 Outcome("ok", <<OpenOp, IdnOp>>, 2, NoRet))
  /\ requested = NoRequest
  /\ oscilloscope = FALSE
  /\ enabled = FALSE

\* the first get_waveform of that session
get_waveform_once ==
  /\ last.op = "connect"
  /\ \E s \in DecodeScripts :
       last' = Call("get_waveform", <<1>>, s, inst, GetWaveform(inst, Usable, 1, s))
  /\ UNCHANGED <<inst, open, nextH, lastConn>>
  /\ UNCHANGED aux

DecodeNext == get_waveform_once

DecodeSpec == DecodeInit /\ [][DecodeNext]_vars

\* ------------------------- configuration and acquisition on one session
\* replies in which the device's scale is or is not the one last written
ScaleScripts ==
  { Script(0, P0, d, Num(sc), Num(at)) :
      d \in Raws, sc \in {5, 10, 20}, at \in {10, 100} }
    \cup { Script(k, P0, D0, S0, A0) : k \in 6..8 }

\* set_voltage_scale, with the value passed kept as history
set_voltage_scale_recorded ==
  \E channel \in Channels, volts_per_div \in VoltsVals, failAt \in 0..1 :
    /\ last' = Call("set_voltage_scale", <<channel, volts_per_div>>,
                    [failAt |-> failAt], inst,
                    RunWrites(inst, Usable, VoltageScaleOps(channel, volts_per_div), failAt))
    /\ requested' = <<channel, volts_per_div>>
    /\ UNCHANGED <<inst, open, nextH, lastConn, oscilloscope, enabled>>

\* get_waveform, the device answering with any of its scales
get_waveform_live ==
  \E channel \in Channels, s \in ScaleScripts :
    /\ last' = Call("get_waveform", <<channel>>, s, inst,
                    GetWaveform(inst, Usable, channel, s))
    /\ UNCHANGED <<inst, open, nextH, lastConn>>
    /\ UNCHANGED aux

ScaleNext ==
  \/ set_voltage_scale_recorded
  \/ get_waveform_live

\* from the session right after a connect that succeeded
ScaleSpec == DecodeInit /\ [][ScaleNext]_vars

\* ------------------------------------------------------------ MainWindow
\* what the input widgets hold: the values set up by _setup_ui and one other
\* choice of each
WindowSettings ==
  { [channel |-> 1, timebase |-> 2, volts |-> 10,
     mode |-> "EDGE", source |-> 1, slope |-> "POS", level |-> 15],
    [channel |-> 2, timebase |-> 10, volts |-> 20,
     mode |-> "PULSE", source |-> 2, slope |-> "NEG", level |-> 15] }

\* the seven writes of apply_settings: set_channel, set_timebase,
\* set_voltage_scale, set_trigger
ApplyOps(w) ==
  ChannelOps(w.channel) \o TimebaseOps(w.timebase)
    \o VoltageScaleOps(w.channel, w.volts)
    \o TriggerOps(w.mode, w.source, w.slope, w.level)

\* apply_settings: a warning when self.oscilloscope is None, else the four
\* setters in one try block; the first exception is caught and shown
ApplySettings(present, h, usable, w, failAt) ==
  IF ~present
    THEN Outcome("warning", <<>>, 0, NoRet)
    ELSE RunWrites(h, usable, ApplyOps(w), failAt)

\* MainWindow.get_waveform: a warning when self.oscilloscope is None, else
\* Oscilloscope.get_waveform in a try block
WindowGetWaveform(present, h, usable, channel, s) ==
  IF ~present
    THEN Outcome("warning", <<>>, 0, NoRet)
    ELSE GetWaveform(h, usable, channel, s)

WindowScripts ==
  {Script(k, P0, D0, S0, A0) : k \in 0..8}
    \cup {Script(0, SubSeq(P0, 1, 7), D0, S0, A0), Script(0, P0, <<>>, S0, A0),
          Script(0, P0, D0, S0, Num(0))}

\* connect_oscilloscope: a new Oscilloscope object replaces
\* self.oscilloscope, then connect(), then the buttons are enabled and
\* apply_settings() runs; any exception of the first two is caught and shown.
\* The object replaced is not disconnected.  Building the object can fail
\* (pyvisa.ResourceManager()), before the assignment.
connect_oscilloscope ==
  \E ctorFails \in BOOLEAN, openFails \in BOOLEAN, idnFails \in BOOLEAN,
     w \in WindowSettings, failAt \in 0..7 :
    /\ ctorFails => (~openFails /\ ~idnFails)
    /\ openFails => ~idnFails
    /\ (ctorFails \/ openFails \/ idnFails) => failAt = 0
    /\ (~ctorFails /\ ~openFails) => nextH <= MaxHandles
    /\ IF ctorFails
         THEN /\ UNCHANGED <<inst, open, nextH, oscilloscope, enabled>>
              /\ last' = Call("connect_oscilloscope", <<>>, NoEnv, inst,
                              Outcome("VisaIOError", <<>>, 0, NoRet))
              /\ lastConn' = "connect_failed"
         ELSE IF openFails
         THEN /\ oscilloscope' = TRUE
              /\ inst' = NoHandle
              /\ UNCHANGED <<open, nextH, enabled>>
              /\ last' = Call("connect_oscilloscope", <<>>, [failAt |-> 1], inst,
                              Outcome("VisaIOError", <<OpenOp>>, 0, NoRet))
              /\ lastConn' = "connect_failed"
         ELSE IF idnFails
         THEN /\ oscilloscope' = TRUE
              /\ inst' = nextH
              /\ open' = open \cup {nextH}
              /\ nextH' = nextH + 1
              /\ UNCHANGED enabled
              /\ last' = Call("connect_oscilloscope", <<>>, [failAt |-> 2], inst,
                              Outcome("VisaIOError", <<OpenOp, IdnOp>>, 1, NoRet))
              /\ lastConn' = "connect_failed"
         ELSE LET a == ApplySettings(TRUE, nextH, TRUE, w, failAt)
              IN  /\ oscilloscope' = TRUE
                  /\ inst' = nextH
                  /\ open' = open \cup {nextH}
                  /\ nextH' = nextH + 1
                  /\ enabled' = TRUE
                  /\ last' = Call("connect_oscilloscope", <<>>, [failAt |-> failAt], inst,
                                  Outcome(a.result, <<OpenOp, IdnOp>> \o a.calls,
                                          2 + a.done, NoRet))
                  /\ lastConn' = "connect_ok"
    /\ UNCHANGED requested

\* disconnect_oscilloscope (its button is enabled by the first connect that
\* succeeds): disconnect() and forget the object, if there is one.  An
\* exception of disconnect() leaves the handler before the object is forgotten.
disconnect_oscilloscope ==
  \E closeFails \in BOOLEAN, released \in BOOLEAN :
    /\ enabled
    /\ ~closeFails => released
    /\ (inst = NoHandle) => ~closeFails
    /\ IF ~oscilloscope \/ inst = NoHandle
         THEN /\ oscilloscope' = FALSE
              /\ UNCHANGED <<inst, open>>
              /\ last' = Call("disconnect_oscilloscope", <<>>, NoEnv, inst,
                              Outcome("ok", <<>>, 0, NoRet))
         ELSE IF ~closeFails
         THEN /\ oscilloscope' = FALSE
              /\ inst' = NoHandle
              /\ open' = open \ {inst}
              /\ last' = Call("disconnect_oscilloscope", <<>>, NoEnv, inst,
                              Outcome("ok", <<CloseOp>>, 1, NoRet))
         ELSE /\ UNCHANGED <<oscilloscope, inst>>
              /\ open' = IF released THEN open \ {inst} ELSE open
              /\ last' = Call("disconnect_oscilloscope", <<>>, [failAt |-> 1], inst,
                              Outcome("VisaIOError", <<CloseOp>>, 0, NoRet))
    /\ lastConn' = "disconnect"
    /\ UNCHANGED <<nextH, enabled, requested>>

\* apply_settings: from its button or from a change of the timebase, voltage
\* or trigger-level input (always enabled)
apply_settings ==
  \E w \in WindowSettings, failAt \in 0..7 :
    /\ last' = Call("apply_settings", <<>>, [failAt |-> failAt], inst,
                    ApplySettings(oscilloscope, inst, Usable, w, failAt))
    /\ UNCHANGED <<inst, open, nextH, lastConn>>
    /\ UNCHANGED aux

\* MainWindow.get_waveform (its button is enabled by the first connect that
\* succeeds)
MainWindow_get_waveform ==
  \E w \in WindowSettings, s \in WindowScripts :
    /\ enabled
    /\ last' = Call("MainWindow.get_waveform", <<w.channel>>, s, inst,
                    WindowGetWaveform(oscilloscope, inst, Usable, w.channel, s))
    /\ UNCHANGED <<inst, open, nextH, lastConn>>
    /\ UNCHANGED aux

WindowNext ==
  \/ connect_oscilloscope
  \/ disconnect_oscilloscope
  \/ apply_settings
  \/ MainWindow_get_waveform

WindowSpec == Init /\ [][WindowNext]_vars

\* ================================================================ claims
Setters == {"set_channel", "set_timebase", "set_voltage_scale", "set_trigger"}

\* the :WAV:PRE? reply of the last get_waveform was received
PreambleRead == last.op = "get_waveform" /\ last.done >= 5

\* C1: a successful get_waveform(channel) has issued exactly these eight
\* transport operations, each once, in this order: write source-select for
\* the channel, write format BYTE, write mode NORMAL, query format, query
\* preamble, binary query of the data, query vertical scale, query probe
\* attenuation; samples are returned only after all eight completed.
C1_WaveformOrder ==
  (last.op = "get_waveform") =>
    /\ (last.result = "ok") =>
         /\ last.calls = << W(":WAV:SOUR CHAN", <<last.args[1]>>),
                            W(":WAV:FORM BYTE", <<>>),
                            W(":WAV:MODE NORMAL", <<>>),
                            Q(":WAV:FORM?", <<>>),
                            Q(":WAV:PRE?", <<>>),
                            QB(":WAV:DATA?", <<>>),
                            Q(":CHAN:SCAL?", <<last.args[1]>>),
                            Q(":CHAN:PROB?", <<last.args[1]>>) >>
         /\ last.done = 8
    /\ (last.ret # NoRet) => (last.result = "ok" /\ last.done = 8)

C1_Witness ==
  /\ last.op = "get_waveform"
  /\ last.pre # NoHandle
  /\ last.result = "ok"
  /\ last.args = <<2>>
  /\ last.ret # NoRet

\* C2: a setter called on a session without a handle fails with the
\* not-connected error and issues no transport operation.
C2_SettersNotConnected ==
  (last.op \in Setters /\ last.pre = NoHandle) =>
    (last.result = "NotConnected" /\ last.calls = <<>>)

\* C3: a connect that fails on a session without a handle, at the open or at
\* the identity query, leaves the session without a handle and no handle open.
C3_FailedConnectDisconnected ==
  (last.op = "connect" /\ last.pre = NoHandle /\ last.result # "ok") =>
    (inst = NoHandle /\ open = {})

\* C4: at most one handle opened by the session is open, and an open handle
\* is the one the session holds.
C4_AtMostOneHandle ==
  /\ Cardinality(open) <= 1
  /\ open \subseteq {inst}

\* C5: after any disconnect the call has not raised, the session holds no
\* handle and the handle it held is released.
C5_DisconnectReleases ==
  (last.op = "disconnect") =>
    (last.result = "ok" /\ inst = NoHandle /\ last.pre \notin open)

\* C6: disconnect on a session without a handle performs no transport
\* operation and reports no error, and a disconnect that follows a
\* disconnect changes nothing: the handle is not closed a second time.
C6_DisconnectIdempotent ==
  [][ (last'.op = "disconnect") =>
        /\ (inst = NoHandle) =>
             (last'.result = "ok" /\ last'.calls = <<>> /\ inst' = inst /\ open' = open)
        /\ (last.op = "disconnect") =>
             (last'.result = "ok" /\ last'.calls = <<>> /\ inst' = inst /\ open' = open)
    ]_vars

\* C7: when the last connect/disconnect call was a disconnect, get_waveform
\* fails with the not-connected error, returns nothing and issues no
\* transport operation.
C7_WaveformAfterDisconnect ==
  (last.op = "get_waveform" /\ lastConn = "disconnect") =>
    (last.result = "NotConnected" /\ last.ret = NoRet /\ last.calls = <<>>)

\* C8: a preamble reply of fewer than ten fields ends get_waveform with the
\* parse error (ValueError) right after the preamble query and without
\* samples; a reply of ten or more fields whose converted fields are numeric
\* passes the preamble step whatever follows the tenth field.
C8_PreambleFieldCount ==
  PreambleRead =>
    LET f == last.env.preamble
    IN  /\ (Len(f) < 10) =>
             (last.result = "ValueError" /\ last.ret = NoRet /\ Len(last.calls) = 5)
        /\ (Len(f) >= 10 /\ \A i \in 5..10 : FloatOK(f[i])) =>
             ~(last.result = "ValueError" /\ Len(last.calls) = 5)

C8_Witness ==
  /\ PreambleRead
  /\ Len(last.env.preamble) = 7
  /\ last.result = "ValueError"

C8_WitnessLong ==
  /\ PreambleRead
  /\ Len(last.env.preamble) = 11
  /\ ~FloatOK(last.env.preamble[11])
  /\ last.result = "ok"

C10_TriggerSequence ==
  (last.op = "set_trigger" /\ last.pre # NoHandle) =>
    LET a == last.args
        expected == << W(":TRIG:MODE", <<a[1]>>),
                       W(":TRIG:EDGE:SOUR CHAN", <<a[2]>>),
                       W(":TRIG:EDGE:SLOP", <<a[3]>>),
                       W(":TRIG:LEV CHAN", <<a[2], a[4]>>) >>
        k == IF inst \in open THEN last.env.failAt ELSE 1
    IN  IF k = 0
          THEN last.result = "ok" /\ last.calls = expected /\ last.done = 4
          ELSE /\ last.result = "VisaIOError"
               /\ last.calls = SubSeq(expected, 1, k)
               /\ last.done = k - 1

C10_Witness ==
  /\ last.op = "set_trigger"
  /\ last.pre # NoHandle
  /\ last.result = "VisaIOError"
  /\ Len(last.calls) = 3
  /\ last.done = 2

\* the :CHAN<n>:PROB? reply of the last get_waveform was received
AttenuationRead == last.op = "get_waveform" /\ last.done = 8

\* C11: when the device reports a probe attenuation of 0, get_waveform raises
\* (ZeroDivisionError) and returns nothing, whatever the raw block (the empty
\* one included) and the vertical scale; no returned voltage is infinite or
\* NaN (a fraction with denominator 0).
C11_ZeroAttenuationRaises ==
  /\ (AttenuationRead /\ FloatOK(last.env.scale) /\ last.env.att = Num(0)) =>
       (last.result = "ZeroDivisionError" /\ last.ret = NoRet)
  /\ (last.op = "get_waveform" /\ last.ret # NoRet) =>
       \A i \in 1..Len(last.ret[1].voltage) : last.ret[1].voltage[i][2] > 0

C11_Witness ==
  /\ AttenuationRead
  /\ last.env.att = Num(0)
  /\ last.env.data = <<>>
  /\ last.env.scale = Num(20)
  /\ last.result = "ZeroDivisionError"

\* C12: a successful get_waveform returns time and voltage sequences of the
\* same length, the length of the raw block received, whatever point count
\* the preamble announces.
C12_LengthIsRawLength ==
  (last.op = "get_waveform" /\ last.result = "ok") =>
    /\ last.ret # NoRet
    /\ Len(last.ret[1].time) = Len(last.env.data)
    /\ Len(last.ret[1].voltage) = Len(last.env.data)

C12_Witness ==
  /\ last.op = "get_waveform"
  /\ last.result = "ok"
  /\ last.env.preamble[3] = Num(10)
  /\ Len(last.env.data) = 2
  /\ Len(last.ret[1].time) = 2

\* C13: every returned sample i (from 0) of a raw byte d has
\* voltage = ((d - 130) / 25) * (vertical_scale / probe_attenuation) and
\* time = (i - x_reference) * x_increment + x_origin, whatever y_increment,
\* y_origin and y_reference are; raw = [130, 155, 105] with x_increment 1,
\* x_origin 0, x_reference 0, scale 1 and attenuation 1 gives
\* voltage = [0, 1, -1] and time = [0, 1, 2] (times in units of x_increment).
C13_AffineDecode ==
  (last.op = "get_waveform" /\ last.result = "ok") =>
    LET s == last.env
        f == s.preamble
        vs == s.scale[2]
        pa == s.att[2]
        xref == CASE f[7][2] = 15 -> 1
                  [] f[7][2] = -15 -> -1
                  [] OTHER -> 0
        out == last.ret[1]
    IN  /\ \A i \in 1..Len(s.data) :
             /\ out.voltage[i][2] > 0
             /\ out.voltage[i][1] * (25 * pa) = (s.data[i] - 130) * vs * out.voltage[i][2]
             /\ out.time[i] = ((i - 1) - xref) * f[5][2] + f[6][2]
        /\ (s.data = <<130, 155, 105>> /\ f[5][2] = 10 /\ f[6][2] = 0 /\ f[7][2] = 0
              /\ vs = 10 /\ pa = 10) =>
             /\ out.voltage = << <<0, 1>>, <<1, 1>>, <<-1, 1>> >>
             /\ out.time = <<0, 10, 20>>

C13_Witness ==
  /\ last.op = "get_waveform"
  /\ last.result = "ok"
  /\ last.env.data = <<130, 155, 105>>
  /\ last.env.preamble = << Num(0), Num(0), Num(12000), Num(10), Num(10), Num(0),
                            Num(0), Num(4), Num(50), Num(0) >>
  /\ last.env.scale = Num(10)
  /\ last.env.att = Num(10)
  /\ last.ret[1].voltage = << <<0, 1>>, <<1, 1>>, <<-1, 1>> >>

\* C14: when the :WAV:DATA? reply is an empty block, get_waveform fails with
\* the parse error at that step and returns nothing.
C14_EmptyBlockRejected ==
  (last.op = "get_waveform" /\ last.done >= 6 /\ last.env.data = <<>>) =>
    (last.result = "ValueError" /\ Len(last.calls) = 6 /\ last.ret = NoRet)

SessionOps == Setters \cup {"connect", "disconnect", "get_waveform"}

\* C15: within one call no transport operation is sent twice; a call that
\* fails returns nothing, and its transcript ends where it failed: at the
\* transport operation that raised, or at the reply that did not parse.  A
\* malformed preamble ends get_waveform before the data, scale and
\* attenuation queries.
C15_NoRetry ==
  (last.op \in SessionOps) =>
    /\ \A i, j \in 1..Len(last.calls) : (i # j) => (last.calls[i] # last.calls[j])
    /\ (last.result # "ok") => (last.ret = NoRet)
    /\ (last.result = "VisaIOError") =>
         /\ last.done = Len(last.calls) - 1
         /\ (last.op \in Setters \cup {"get_waveform"}) =>
              Len(last.calls) = (IF inst \in open THEN last.env.failAt ELSE 1)
    /\ (last.result \in {"ValueError", "ZeroDivisionError"}) =>
         (last.done = Len(last.calls))
    /\ (PreambleRead /\ (Len(last.env.preamble) < 10
                          \/ \E i \in 5..10 : ~FloatOK(last.env.preamble[i]))) =>
         /\ last.result = "ValueError"
         /\ Len(last.calls) = 5
         /\ \A i \in 1..Len(last.calls) :
              last.calls[i].cmd \notin {":WAV:DATA?", ":CHAN:SCAL?", ":CHAN:PROB?"}

C15_Witness ==
  /\ last.op = "set_trigger"
  /\ last.result = "VisaIOError"
  /\ last.env.failAt = 2
  /\ Len(last.calls) = 2

C15_WitnessPreamble ==
  /\ PreambleRead
  /\ Len(last.env.preamble) = 9
  /\ last.result = "ValueError"
  /\ Len(last.calls) = 5

\* C16: a successful get_waveform(channel) asks the device for the channel's
\* scale and attenuation after the data query, and every voltage is computed
\* from those two replies, whatever scale set_voltage_scale was last given
\* for the channel.
C16_LiveScale ==
  (last.op = "get_waveform" /\ last.result = "ok") =>
    LET s == last.env
        out == last.ret[1]
    IN  /\ last.calls[6] = QB(":WAV:DATA?", <<>>)
        /\ last.calls[7] = Q(":CHAN:SCAL?", <<last.args[1]>>)
        /\ last.calls[8] = Q(":CHAN:PROB?", <<last.args[1]>>)
        /\ \A i \in 1..Len(s.data) :
             /\ out.voltage[i][2] > 0
             /\ out.voltage[i][1] * (25 * s.att[2])
                  = (s.data[i] - 130) * s.scale[2] * out.voltage[i][2]

\* the scale written for channel 1 was 2.0, the device answers 0.5
C16_Witness ==
  /\ last.op = "get_waveform"
  /\ last.result = "ok"
  /\ last.args = <<1>>
  /\ requested = <<1, 20>>
  /\ last.env.scale = Num(5)
  /\ last.env.att = Num(10)
  /\ last.env.data = <<155>>
  /\ last.ret[1].voltage = << <<1, 2>> >>

\* C17: a setter or get_waveform, however it ends, leaves the session's
\* handle and the transport's open handles as they were; only connect and
\* disconnect change them.
C17_CallsKeepConnection ==
  [][ (last'.op \in Setters \cup {"get_waveform"}) =>
        (inst' = inst /\ open' = open) ]_vars

\* a get_waveform that failed on a malformed preamble, the session still
\* holding its open handle
C17_Witness ==
  /\ last.op = "get_waveform"
  /\ last.result = "ValueError"
  /\ last.pre # NoHandle
  /\ inst = last.pre
  /\ inst \in open

\* C18: apply_settings and MainWindow.get_waveform send something to the
\* transport only when the most recent connect_oscilloscope succeeded and no
\* disconnect_oscilloscope came after it.
C18_WindowSendsOnlyConnected ==
  (last.op \in {"apply_settings", "MainWindow.get_waveform"} /\ last.calls # <<>>) =>
    (lastConn = "connect_ok")

\* C19: over all the sessions MainWindow has created, at most one transport
\* handle is open.
C19_WindowOneHandle == Cardinality(open) <= 1

====
